---- MODULE Spec2Model ----
(***************************************************************************)
(* Model of the Compal CH7465LG client (src/compal/__init__.py): the       *)
(* transport session and its token hook, the getter/setter primitives,     *)
(* the login / reboot / logout sequences and the function scanner.         *)
(*                                                                         *)
(* One thread of control drives one session.  Every HTTP exchange is a     *)
(* pair of steps: the call that hands a request to the session (pc leaves  *)
(* "idle") and the step that receives the device's answer, or a transport  *)
(* failure, and runs the rest of the handler.                              *)
(***************************************************************************)
EXTENDS Integers, Sequences, FiniteSets, TLC

(***************************************************************************)
(* Values                                                                  *)
(***************************************************************************)
\* Python None, for the token, the key, a cookie, a return value.
None == "None"

\* Field values of a form: a string s is <<s, 0>>, the integer i is
\* <<"int", i>>, so that function names and scan positions compare.
Str(s) == <<s, 0>>
Num(i) == <<"int", i>>

\* sessionToken cookie values the device hands out.
Tokens == {"t1", "t2"}

\* Pages of the device (URL path segments after http://<ip>/).
RootPage == <<>>
LoginPage == <<"common_page", "login.html">>
FirstInstallPage == <<"common_page", "FirstInstallation.html">>
AccessDeniedPage == <<"common_page", "Access-denied.html">>
GetterPath == <<"xml", "getter.xml">>
SetterPath == <<"xml", "setter.xml">>
RestorePath == <<"xml", "getter.xml?Restore">>

\* str.endswith on a path.
EndsWith(u, suffix) ==
    /\ Len(u) >= Len(suffix)
    /\ SubSeq(u, Len(u) - Len(suffix) + 1, Len(u)) = suffix

(***************************************************************************)
(* Ordered dictionaries: sequences of <<key, value>> with distinct keys.   *)
(***************************************************************************)
DictKeys(d) == [i \in 1..Len(d) |-> d[i][1]]

Has(d, k) == \E i \in 1..Len(d) : d[i][1] = k

Lookup(d, k) == d[CHOOSE i \in 1..Len(d) : d[i][1] = k][2]

\* d[k] = v: an existing key keeps its position, a new key goes last.
SetItem(d, k, v) ==
    IF Has(d, k)
    THEN [i \in 1..Len(d) |-> IF d[i][1] = k THEN <<k, v>> ELSE d[i]]
    ELSE Append(d, <<k, v>>)

\* d.pop(k): the dictionary without the key.
Pop(d, k) == SelectSeq(d, LAMBDA e : e[1] # k)

\* d.update(e): e's items assigned one after the other.
RECURSIVE Update(_, _)
Update(d, e) ==
    IF e = <<>> THEN d
    ELSE Update(SetItem(d, Head(e)[1], Head(e)[2]), Tail(e))

(***************************************************************************)
(* What the device can answer                                              *)
(***************************************************************************)
\* Response bodies, as the query-string items a body spells (name=value
\* joined by &); the empty sequence is the empty body ''.
Bodies ==
    { <<>>,
      << <<"SID", "">> >>,
      << <<"x", "v">>, <<"SID", "s1">> >>,
      << <<"SID", "s2">>, <<"SID", "s1">> >> }

\* Bodies of answers other than 200.
ErrorBodies == { <<>>, << <<"SID", "s1">> >> }

\* The Location header: a set holding the target when the header is there.
Locations == { {}, {LoginPage}, {FirstInstallPage}, {AccessDeniedPage} }

\* The Location header of an answer with an error status.
ErrorLocations == { {}, {AccessDeniedPage} }

\* A response: status_code, the sessionToken cookie it sets (None when it
\* sets none), headers['Location'] and text.
Responses ==
    [status_code : {200}, cookie : Tokens \cup {None},
     Location : { {} }, text : Bodies]
    \cup
    [status_code : {302}, cookie : Tokens \cup {None},
     Location : Locations, text : ErrorBodies]
    \cup
    [status_code : {404}, cookie : Tokens \cup {None},
     Location : ErrorLocations, text : ErrorBodies]

\* Placeholder where no response exists (a raise, a None return).
NoRes == [status_code |-> 0, cookie |-> None, Location |-> {}, text |-> <<>>]

\* requests' transport failures.
Failures == {"ReadTimeout", "ConnectionError"}

\* Outcome of handing one request to the transport.
Outcomes ==
    [fail : {None}, res : Responses] \cup [fail : Failures, res : {NoRes}]

\* Response.ok, which is what bool(res) is: no 4xx/5xx status.
Ok(res) == res.status_code < 400

(***************************************************************************)
(* Compal.token_handler, Compal.post, xml_getter, xml_setter               *)
(***************************************************************************)
\* A hook that takes the token of 200 answers only.
token_handler_200(res) ==
    [session_token |-> IF res.status_code = 200 THEN res.cookie ELSE None,
     exc |-> IF res.status_code = 302 /\ res.Location = {}
             THEN "KeyError" ELSE None]

\* The response hook: the token it stores and the error it raises (the
\* logging call of a 302 reads headers['Location']).
token_handler(res) ==
    [session_token |-> res.cookie,
     exc |-> IF res.status_code = 302 /\ res.Location = {}
             THEN "KeyError" ELSE None]

\* post without the step that moves fun forward.
post_data_unmoved(tok, _data) == Update(<< <<"token", Str(tok)>> >>, _data)

\* The data dictionary Compal.post builds from the caller's _data.
post_data(tok, _data) ==
    LET d0 == << <<"token", Str(tok)>> >>
        d1 == IF Has(_data, "fun")
              THEN SetItem(d0, "fun", Lookup(_data, "fun"))
              ELSE d0
        rest == IF Has(_data, "fun") THEN Pop(_data, "fun") ELSE _data
    IN Update(d1, rest)

\* A primitive that keeps the fun its caller left in params.
with_fun_kept(fun, params) ==
    IF Has(params, "fun") THEN params ELSE SetItem(params, "fun", fun)

\* params['fun'] = fun of xml_getter and xml_setter.
with_fun(fun, params) == SetItem(params, "fun", fun)

\* The configured timeout (the constructor's default).
timeout == 10

\* The redirect limit of the session.
max_redirects == 3

\* The request Compal.post hands to session.post.
post_request(path, _data, tok, prior) ==
    [method |-> "POST", via |-> "post", path |-> path,
     params |-> _data, data |-> post_data(tok, _data),
     timeout |-> {timeout}, allow_redirects |-> FALSE, prior |-> prior]

(***************************************************************************)
(* Compal.login                                                            *)
(***************************************************************************)
\* bool(key) of Python.
Truthy(k) == k # None /\ k # ""

\* The ordered fields login sends.
login_params(k, self_key) ==
    << <<"Username", Str("admin")>>,
       <<"Password", Str(IF Truthy(k) THEN k ELSE self_key)>> >>

\* urllib.parse.parse_qs(text).get('SID'): the non-blank SID values, in order.
parse_qs_SID(text) ==
    LET sids == SelectSeq(text, LAMBDA e : e[1] = "SID" /\ e[2] # "")
    IN [i \in 1..Len(sids) |-> sids[i][2]]

\* login without its status check.
login_check_any_status(res, sid) ==
    IF parse_qs_SID(res.text) = <<>>
    THEN [exc |-> "InvalidCredentials", SID |-> sid]
    ELSE [exc |-> None, SID |-> parse_qs_SID(res.text)[1]]

\* login that installs the SID cookie before it checks the response.
login_check_sid_first(res, sid) ==
    LET new == IF parse_qs_SID(res.text) = <<>> THEN sid
               ELSE parse_qs_SID(res.text)[1]
    IN IF res.status_code # 200
       THEN [exc |-> IF res.Location = {} THEN "KeyError"
                     ELSE IF \E l \in res.Location :
                                 EndsWith(l, AccessDeniedPage)
                          THEN "AccessDenied"
                          ELSE "LoginFailedUnknown",
             SID |-> new]
       ELSE IF parse_qs_SID(res.text) = <<>>
            THEN [exc |-> "InvalidCredentials", SID |-> new]
            ELSE [exc |-> None, SID |-> new]

\* What login does with the setter's response: the exception it raises
\* (None when it returns) and the SID cookie afterwards.
login_check(res, sid) ==
    IF res.status_code # 200
    THEN [exc |-> IF res.Location = {} THEN "KeyError"
                  ELSE IF \E l \in res.Location : EndsWith(l, AccessDeniedPage)
                       THEN "AccessDenied"
                       ELSE "LoginFailedUnknown",
          SID |-> sid]
    ELSE IF parse_qs_SID(res.text) = <<>>
         THEN [exc |-> "InvalidCredentials", SID |-> sid]
         ELSE [exc |-> None, SID |-> parse_qs_SID(res.text)[1]]

(***************************************************************************)
(* Bounds                                                                  *)
(***************************************************************************)
\* Longest parameter list handed to post, xml_getter and xml_setter when
\* the field order is checked on its own.
MaxParams == 3

\* Start positions handed to FuncScanner.
StartPositions == {5}

\* The scan cursor is not advanced beyond this position.
MaxPos == 6

(***************************************************************************)
(* State                                                                   *)
(***************************************************************************)
VARIABLES
    session_token,  \* Compal.session_token
    key,            \* Compal.key
    cookies_SID,    \* session.cookies['SID'], None when not set
    referer,        \* session.headers['Referer']: {} or {url}
    pc,             \* where the thread of control is
    hops,           \* redirects followed by the request in flight
    url,            \* URL of the request in flight
    step,           \* index of the initial_setup request in flight
    current_pos,    \* FuncScanner.current_pos
    last_login,     \* FuncScanner.last_login
    scan_key,       \* FuncScanner.key
    res,            \* the local res of scan()
    request,        \* the request handed to the session last
    result,         \* how the last call ended
    last_cookie,    \* the sessionToken cookie of the latest response
    last_status,    \* the status of the latest response of the call
    got             \* the last step received a response

vars == <<session_token, key, cookies_SID, referer, pc, hops, url, step,
          current_pos, last_login, scan_key, res, request, result,
          last_cookie, last_status, got>>

scanVars == <<current_pos, last_login, scan_key, res>>

NoRequest ==
    [method |-> "none", via |-> "none", path |-> <<>>, params |-> <<>>,
     data |-> <<>>, timeout |-> {}, allow_redirects |-> FALSE,
     prior |-> None]

\* How a call ended: it returned val (NoRes stands for None) or raised exc,
\* or it is still running.  arg is the key the caller passed, log what the
\* call reported through LOGGER.error; resp and fail are the outcome of the
\* last request of the call: its response, or the transport's failure.
\* again marks a logout() called right after a logout().
Return(op, r) ==
    [op |-> op, kind |-> "return", exc |-> None, val |-> r, log |-> None,
     arg |-> None, resp |-> NoRes, fail |-> None, again |-> FALSE]

Raise(op, e) ==
    [op |-> op, kind |-> "raise", exc |-> e, val |-> NoRes, log |-> None,
     arg |-> None, resp |-> NoRes, fail |-> None, again |-> FALSE]

Pending(op, arg) ==
    [op |-> op, kind |-> "pending", exc |-> None, val |-> NoRes,
     log |-> None, arg |-> arg, resp |-> NoRes, fail |-> None,
     again |-> FALSE]

\* The request Compal.get hands to session.get.
get_request(path, allow, prior) ==
    [method |-> "GET", via |-> "get", path |-> path, params |-> <<>>,
     data |-> <<>>, timeout |-> {timeout}, allow_redirects |-> allow,
     prior |-> prior]

\* The request Compal.post_binary hands to session.post.
post_binary_request(path, prior) ==
    [method |-> "POST", via |-> "post_binary", path |-> path,
     params |-> <<>>, data |-> <<>>, timeout |-> {},
     allow_redirects |-> TRUE, prior |-> prior]

\* The request the session sends to follow a redirect to target.
redirect_request(req, target, prior) ==
    [req EXCEPT !.method = "GET", !.path = target, !.prior = prior]

\* xml_getter(fun, params) and xml_setter(fun, params) as requests.
xml_getter(fun, params, tok, prior) ==
    [post_request(GetterPath, with_fun(fun, params), tok, prior)
     EXCEPT !.params = params]

xml_setter(fun, params, tok, prior) ==
    [post_request(SetterPath, with_fun(fun, params), tok, prior)
     EXCEPT !.params = params]

\* The response hook registered on the session runs on every response;
\* a transport failure delivers no response and runs no hook.
Hook(o) ==
    /\ session_token' =
           IF o.fail # None THEN session_token
           ELSE token_handler(o.res).session_token
    /\ last_status' =
           IF o.fail # None THEN last_status ELSE o.res.status_code
    /\ last_cookie' = IF o.fail # None THEN last_cookie ELSE o.res.cookie
    /\ got' = (o.fail = None)

\* The exception a session call raises for outcome o, None when it returns.
Raised(o) == IF o.fail # None THEN o.fail ELSE token_handler(o.res).exc

Init ==
    /\ session_token = None
    /\ \E ks \in {<<None, "pw2">>, <<"pw", None>>} :
         /\ key = ks[1]
         /\ scan_key = ks[2]
    /\ cookies_SID = None
    /\ referer = {}
    /\ pc = "new"
    /\ hops = 0
    /\ url = RootPage
    /\ step = 0
    /\ current_pos \in StartPositions
    /\ last_login = -1
    /\ res = NoRes
    /\ request = NoRequest
    /\ result = Return("none", NoRes)
    /\ last_cookie = None
    /\ last_status = 0
    /\ got = FALSE

(***************************************************************************)
(* Helpers of the steps                                                    *)
(***************************************************************************)
\* A call starts by sending req.
Send(op, arg, req) ==
    /\ pc' = op
    /\ request' = req
    /\ result' = [Pending(op, arg)
                    EXCEPT !.again = (op = "logout" /\ result.again)]

\* A call sends a further request.
SendNext(op, req) ==
    /\ pc' = op
    /\ request' = req
    /\ UNCHANGED result

\* A call ends: it returns or raises to its caller.
Done(rslt, o) ==
    /\ pc' = "done"
    /\ result' = [rslt EXCEPT !.arg = result.arg, !.resp = o.res,
                                !.fail = o.fail, !.again = result.again]
    /\ UNCHANGED request

\* Parameter lists of the callers of xml_getter and xml_setter.
CallerParams ==
    { << <<"a", Str("1")>>, <<"b", Str("2")>> >>,
      << <<"b", Str("2")>>, <<"fun", Str("stale")>>, <<"a", Str("1")>> >> }

(***************************************************************************)
(* xml_getter, xml_setter, logout, reboot, login                           *)
(***************************************************************************)
XmlGetterCall ==
    /\ pc = "idle"
    /\ \E params \in CallerParams :
         Send("xml_getter", None, xml_getter(Str("Get.GLOBALSETTINGS"), params,
                                       session_token, last_cookie))
    /\ UNCHANGED <<session_token, key, cookies_SID, referer, hops, url, step,
                   scanVars, last_cookie, last_status, got>>

XmlGetterReturn ==
    /\ pc = "xml_getter"
    /\ \E o \in Outcomes :
         /\ Hook(o)
         /\ Done(IF Raised(o) # None THEN Raise("xml_getter", Raised(o))
                 ELSE Return("xml_getter", o.res), o)
    /\ UNCHANGED <<key, cookies_SID, referer, hops, url, step, scanVars>>

XmlSetterCall ==
    /\ pc = "idle"
    /\ \E params \in CallerParams :
         Send("xml_setter", None, xml_setter(Str("Set.FIREWALL"), params,
                                       session_token, last_cookie))
    /\ UNCHANGED <<session_token, key, cookies_SID, referer, hops, url, step,
                   scanVars, last_cookie, last_status, got>>

XmlSetterReturn ==
    /\ pc = "xml_setter"
    /\ \E o \in Outcomes :
         /\ Hook(o)
         /\ Done(IF Raised(o) # None THEN Raise("xml_setter", Raised(o))
                 ELSE Return("xml_setter", o.res), o)
    /\ UNCHANGED <<key, cookies_SID, referer, hops, url, step, scanVars>>

LogoutCall ==
    /\ pc = "idle"
    /\ Send("logout", None, xml_setter(Str("Set.LOGOUT"), <<>>,
                                 session_token, last_cookie))
    /\ UNCHANGED <<session_token, key, cookies_SID, referer, hops, url, step,
                   scanVars, last_cookie, last_status, got>>

\* logout with a status check on the setter's response.
logout_result_checked(o) ==
    IF Raised(o) # None THEN Raise("logout", Raised(o))
    ELSE IF o.res.status_code # 200 THEN Raise("logout", "ValueError")
    ELSE Return("logout", o.res)

\* The result of logout for outcome o of its setter call.
logout_result(o) ==
    IF Raised(o) # None THEN Raise("logout", Raised(o))
    ELSE Return("logout", o.res)

LogoutReturn ==
    /\ pc = "logout"
    /\ \E o \in Outcomes :
         /\ Hook(o)
         /\ Done(logout_result(o), o)
    /\ UNCHANGED <<key, cookies_SID, referer, hops, url, step, scanVars>>

RebootCall ==
    /\ pc = "idle"
    /\ Send("reboot", None, xml_setter(Str("Set.REBOOT"), <<>>,
                                 session_token, last_cookie))
    /\ UNCHANGED <<session_token, key, cookies_SID, referer, hops, url, step,
                   scanVars, last_cookie, last_status, got>>

\* reboot with an except clause that catches every exception.
reboot_result_swallow(o) ==
    IF Raised(o) # None THEN Return("reboot", NoRes)
    ELSE Return("reboot", o.res)

\* The result of reboot for outcome o of its setter call.
reboot_result(o) ==
    IF Raised(o) = "ReadTimeout" THEN Return("reboot", NoRes)
    ELSE IF Raised(o) # None THEN Raise("reboot", Raised(o))
    ELSE Return("reboot", o.res)

RebootReturn ==
    /\ pc = "reboot"
    /\ \E o \in Outcomes :
         /\ Hook(o)
         /\ Done(reboot_result(o), o)
    /\ UNCHANGED <<key, cookies_SID, referer, hops, url, step, scanVars>>

\* Keys a caller passes to login.
LoginKeys == {None, "", "pw2"}

LoginCall ==
    /\ pc = "idle"
    /\ \E k \in LoginKeys :
         Send("login", k, xml_setter(Str("Set.LOGIN"), login_params(k, key),
                                  session_token, last_cookie))
    /\ UNCHANGED <<session_token, key, cookies_SID, referer, hops, url, step,
                   scanVars, last_cookie, last_status, got>>

LoginReturn ==
    /\ pc = "login"
    /\ \E o \in Outcomes :
         /\ Hook(o)
         /\ IF Raised(o) # None
            THEN /\ Done(Raise("login", Raised(o)), o)
                 /\ UNCHANGED cookies_SID
            ELSE /\ cookies_SID' = login_check(o.res, cookies_SID).SID
                 /\ Done(IF login_check(o.res, cookies_SID).exc # None
                         THEN Raise("login",
                                    login_check(o.res, cookies_SID).exc)
                         ELSE Return("login", o.res), o)
    /\ UNCHANGED <<key, referer, hops, url, step, scanVars>>

(***************************************************************************)
(* Requests that follow redirects: get, post_binary, the constructor's get *)
(***************************************************************************)
\* A session that follows one redirect more than its limit.
too_many_late(h) == h > max_redirects

\* The session's test before it follows a redirect, h redirects followed
\* so far: TooManyRedirects at the limit.
too_many(h) == h >= max_redirects

\* The session follows the answer o: a 302 with a Location, redirects on.
Redirecting(o) ==
    /\ request.allow_redirects
    /\ o.res.status_code = 302
    /\ o.res.Location # {}

Target(o) == CHOOSE l \in o.res.Location : TRUE

\* The session sends the next request of a redirect chain.
FollowOn(o) ==
    /\ hops' = hops + 1
    /\ url' = Target(o)
    /\ SendNext(pc, redirect_request(request, Target(o), last_cookie'))

\* A get that leaves the Referer header empty.
referer_of_none(u) == {}

\* The Referer header get() sets from res.url = u.
referer_of(u) == {u}

\* Paths and options the callers of get use.
GetPaths == {RootPage}

GetCall ==
    /\ pc = "idle"
    /\ \E path \in GetPaths, allow \in BOOLEAN :
         /\ Send("get", None, get_request(path, allow, last_cookie))
         /\ url' = path
    /\ hops' = 0
    /\ UNCHANGED <<session_token, key, cookies_SID, referer, step, scanVars,
                   last_cookie, last_status, got>>

GetReceive ==
    /\ pc = "get"
    /\ \E o \in Outcomes :
         /\ Hook(o)
         /\ IF Raised(o) # None
            THEN /\ Done(Raise("get", Raised(o)), o)
                 /\ UNCHANGED <<referer, hops, url>>
            ELSE IF Redirecting(o)
            THEN IF too_many(hops)
                 THEN /\ Done(Raise("get", "TooManyRedirects"), o)
                      /\ UNCHANGED <<referer, hops, url>>
                 ELSE /\ FollowOn(o)
                      /\ UNCHANGED referer
            ELSE /\ referer' = referer_of(url)
                 /\ Done(Return("get", o.res), o)
                 /\ UNCHANGED <<hops, url>>
    /\ UNCHANGED <<key, cookies_SID, step, scanVars>>

PostBinaryCall ==
    /\ pc = "idle"
    /\ Send("post_binary", None, post_binary_request(RestorePath, last_cookie))
    /\ url' = RestorePath
    /\ hops' = 0
    /\ UNCHANGED <<session_token, key, cookies_SID, referer, step, scanVars,
                   last_cookie, last_status, got>>

PostBinaryReceive ==
    /\ pc = "post_binary"
    /\ \E o \in Outcomes :
         /\ Hook(o)
         /\ IF Raised(o) # None
            THEN /\ Done(Raise("post_binary", Raised(o)), o)
                 /\ UNCHANGED <<hops, url>>
            ELSE IF Redirecting(o)
            THEN IF too_many(hops)
                 THEN /\ Done(Raise("post_binary", "TooManyRedirects"), o)
                      /\ UNCHANGED <<hops, url>>
                 ELSE FollowOn(o)
            ELSE /\ Done(Return("post_binary", NoRes), o)
                 /\ UNCHANGED <<hops, url>>
    /\ UNCHANGED <<key, cookies_SID, referer, step, scanVars>>

(***************************************************************************)
(* initial_setup and the constructor                                       *)
(***************************************************************************)
\* Number of requests initial_setup replays.
SetupLen == 7

\* initial_setup that logs in before it sets the language.
setup_request_swapped(i, k, tok, prior) ==
    CASE i = 1 -> xml_getter(Str("Get.MULTILANG"), <<>>, tok, prior)
      [] i = 2 -> xml_getter(Str("Get.LANGSETLIST"), <<>>, tok, prior)
      [] i = 3 -> xml_getter(Str("Get.MULTILANG"), <<>>, tok, prior)
      [] i = 4 -> xml_setter(Str("Set.LOGIN"),
                             << <<"Username", Str("admin")>>,
                                <<"Password", Str(k)>> >>, tok, prior)
      [] i = 5 -> xml_setter(Str("Set.LANGUAGE"),
                             << <<"lang", Str("en")>> >>, tok, prior)
      [] i = 6 -> xml_getter(Str("Get.WIRELESSBASIC"), <<>>, tok, prior)
      [] OTHER -> xml_setter(Str("Set.INSTALL_DONE"),
                             << <<"install", Num(0)>>, <<"iv", Num(1)>>,
                                <<"en", Num(0)>> >>, tok, prior)

\* The i-th request of initial_setup.
setup_request(i, k, tok, prior) ==
    CASE i = 1 -> xml_getter(Str("Get.MULTILANG"), <<>>, tok, prior)
      [] i = 2 -> xml_getter(Str("Get.LANGSETLIST"), <<>>, tok, prior)
      [] i = 3 -> xml_getter(Str("Get.MULTILANG"), <<>>, tok, prior)
      [] i = 4 -> xml_setter(Str("Set.LANGUAGE"),
                             << <<"lang", Str("en")>> >>, tok, prior)
      [] i = 5 -> xml_setter(Str("Set.LOGIN"),
                             << <<"Username", Str("admin")>>,
                                <<"Password", Str(k)>> >>, tok, prior)
      [] i = 6 -> xml_getter(Str("Get.WIRELESSBASIC"), <<>>, tok, prior)
      [] OTHER -> xml_setter(Str("Set.INSTALL_DONE"),
                             << <<"install", Num(0)>>, <<"iv", Num(1)>>,
                                <<"en", Num(0)>> >>, tok, prior)

\* initial_setup that does not take the key it is given.
setup_key_ignored(new_key, self_key) == self_key

\* self.key of initial_setup after `if new_key: self.key = new_key`.
setup_key(new_key, self_key) ==
    IF Truthy(new_key) THEN new_key ELSE self_key

\* A constructor that runs the setup wherever the login page is not reached.
needs_setup_unless_login(u) == ~EndsWith(u, LoginPage)

\* A constructor that never runs the setup.
needs_setup_never(u) == FALSE

\* The constructor's test of the final URL u of its GET: first installation.
needs_setup(u) == EndsWith(u, FirstInstallPage)

\* The constructor raised: no client object exists.
CtorFail(e) ==
    /\ pc' = "failed"
    /\ result' = Raise("__init__", e)

Construct ==
    /\ pc = "new"
    /\ Send("__init__", None, get_request(RootPage, TRUE, last_cookie))
    /\ url' = RootPage
    /\ hops' = 0
    /\ UNCHANGED <<session_token, key, cookies_SID, referer, step, scanVars,
                   last_cookie, last_status, got>>

ConstructReceive ==
    /\ pc = "__init__"
    /\ step = 0
    /\ \E o \in Outcomes :
         /\ Hook(o)
         /\ IF Raised(o) # None
            THEN /\ CtorFail(Raised(o))
                 /\ UNCHANGED <<referer, hops, url, step, request>>
            ELSE IF Redirecting(o)
            THEN IF too_many(hops)
                 THEN /\ CtorFail("TooManyRedirects")
                      /\ UNCHANGED <<referer, hops, url, step, request>>
                 ELSE /\ FollowOn(o)
                      /\ UNCHANGED <<referer, step>>
            ELSE /\ referer' = referer_of(url)
                 /\ UNCHANGED <<hops, url>>
                 /\ IF needs_setup(url)
                    THEN IF ~Truthy(setup_key(None, key))
                         THEN /\ CtorFail("ValueError")
                              /\ UNCHANGED <<step, request>>
                         ELSE /\ step' = 1
                              /\ SendNext("__init__",
                                     setup_request(1, setup_key(None, key),
                                                   session_token',
                                                   last_cookie'))
                    ELSE /\ Done([Return("__init__", NoRes) EXCEPT !.log =
                                IF EndsWith(url, LoginPage) THEN None
                                ELSE "Was not redirected to login page"], o)
                         /\ UNCHANGED step
    /\ UNCHANGED <<key, cookies_SID, scanVars>>

\* The constructor's initial_setup: one step per answer.
ConstructSetupReceive ==
    /\ pc = "__init__"
    /\ step > 0
    /\ \E o \in Outcomes :
         /\ Hook(o)
         /\ IF Raised(o) # None
            THEN /\ CtorFail(Raised(o))
                 /\ UNCHANGED <<step, request>>
            ELSE IF step < SetupLen
            THEN /\ step' = step + 1
                 /\ SendNext("__init__",
                        setup_request(step + 1, key, session_token',
                                      last_cookie'))
            ELSE /\ step' = 0
                 /\ Done(Return("__init__", NoRes), o)
    /\ UNCHANGED <<key, cookies_SID, referer, hops, url, scanVars>>

\* Keys a caller passes to initial_setup.
SetupKeys == {None, "pw2"}

InitialSetupCall ==
    /\ pc = "idle"
    /\ \E new_key \in SetupKeys :
         /\ key' = setup_key(new_key, key)
         /\ IF ~Truthy(key')
            THEN /\ pc' = "done"
                 /\ result' = [Raise("initial_setup", "ValueError")
                                EXCEPT !.arg = new_key]
                 /\ UNCHANGED <<request, step>>
            ELSE /\ step' = 1
                 /\ Send("initial_setup", new_key,
                         setup_request(1, key', session_token,
                                       last_cookie))
    /\ UNCHANGED <<session_token, cookies_SID, referer, hops, url, scanVars,
                   last_cookie, last_status, got>>

InitialSetupReceive ==
    /\ pc = "initial_setup"
    /\ \E o \in Outcomes :
         /\ Hook(o)
         /\ IF Raised(o) # None
            THEN /\ Done(Raise("initial_setup", Raised(o)), o)
                 /\ step' = 0
            ELSE IF step < SetupLen
            THEN /\ step' = step + 1
                 /\ SendNext("initial_setup",
                        setup_request(step + 1, key, session_token',
                                      last_cookie'))
            ELSE /\ step' = 0
                 /\ Done(Return("initial_setup", NoRes), o)
    /\ UNCHANGED <<key, cookies_SID, referer, hops, url, scanVars>>

(***************************************************************************)
(* factory_reset                                                           *)
(***************************************************************************)
FactoryResetCall ==
    /\ pc = "idle"
    /\ Send("factory_reset", None,
            xml_getter(Str("Get.DEFAULTVALUE"), <<>>, session_token,
                       last_cookie))
    /\ UNCHANGED <<session_token, key, cookies_SID, referer, hops, url, step,
                   scanVars, last_cookie, last_status, got>>

\* The answer to the default-value getter: default_settings is kept in res.
FactoryResetSnapshot ==
    /\ pc = "factory_reset"
    /\ \E o \in Outcomes :
         /\ Hook(o)
         /\ IF Raised(o) # None
            THEN /\ Done(Raise("factory_reset", Raised(o)), o)
                 /\ UNCHANGED res
            ELSE /\ res' = o.res
                 /\ SendNext("factory_reset_set",
                        xml_setter(Str("Set.FACTORY_RESET"), <<>>,
                                   session_token', last_cookie'))
    /\ UNCHANGED <<key, cookies_SID, referer, hops, url, step, current_pos,
                   last_login, scan_key>>

\* factory_reset without its except clause.
factory_reset_result_reraise(default_settings, o) ==
    IF Raised(o) # None THEN Raise("factory_reset", Raised(o))
    ELSE Return("factory_reset", default_settings)

\* The result of factory_reset for outcome o of its setter call.
factory_reset_result(default_settings, o) ==
    IF Raised(o) # None /\ Raised(o) # "ReadTimeout"
    THEN Raise("factory_reset", Raised(o))
    ELSE Return("factory_reset", default_settings)

FactoryResetReturn ==
    /\ pc = "factory_reset_set"
    /\ \E o \in Outcomes :
         /\ Hook(o)
         /\ Done(factory_reset_result(res, o), o)
    /\ res' = NoRes
    /\ UNCHANGED <<key, cookies_SID, referer, hops, url, step, current_pos,
                   last_login, scan_key>>

(***************************************************************************)
(* FuncScanner                                                             *)
(***************************************************************************)
\* A validity check that takes every answer without an error status.
is_valid_session_ok(r) == Ok(r)

\* FuncScanner.is_valid_session, from the answer to its system-info getter.
is_valid_session(r) == r.status_code = 200

\* The values the loop test `not res or res.text is ''` can take: the
\* identity of an empty text with the literal '' is left to the interpreter.
loop_test(r) ==
    IF ~Ok(r) THEN {TRUE}
    ELSE IF r.text = <<>> THEN BOOLEAN
    ELSE {FALSE}

\* The probe scan() sends for position pos.
probe(pos, tok, prior) == xml_getter(Num(pos), <<>>, tok, prior)

\* End of a loop iteration with res = r: probe again or return r.
LoopOrReturn(r, pos, o) ==
    \E again \in loop_test(r) :
        IF again
        THEN SendNext("scan", probe(pos, session_token',
                                       last_cookie'))
        ELSE Done(Return("scan", r), o)

\* A status check that takes every answer without an error status.
advance_ok(r) == Ok(r)

\* A status check that never fails.
advance_always(r) == TRUE

\* The status check that ends an iteration: the cursor advances for r.
advance(r) == r.status_code = 200

\* The status check that ends an iteration: advance or raise.
StatusCheck(r, o) ==
    IF advance(r)
    THEN /\ current_pos < MaxPos
         /\ current_pos' = current_pos + 1
         /\ LoopOrReturn(r, current_pos + 1, o)
    ELSE /\ Done(Raise("scan", "ScanHttpError"), o)
         /\ UNCHANGED current_pos

ScanCall ==
    /\ pc = "idle"
    /\ Send("scan", None, probe(current_pos, session_token, last_cookie))
    /\ UNCHANGED <<session_token, key, cookies_SID, referer, hops, url, step,
                   scanVars, last_cookie, last_status, got>>

ScanProbeReceive ==
    /\ pc = "scan"
    /\ \E o \in Outcomes :
         /\ Hook(o)
         /\ IF Raised(o) # None
            THEN /\ Done(Raise("scan", Raised(o)), o)
                 /\ UNCHANGED <<current_pos, res>>
            ELSE IF o.res.text = <<>>
            THEN /\ res' = o.res
                 /\ SendNext("scan_valid",
                        xml_getter(Str("Get.CM_SYSTEM_INFO"), <<>>,
                                   session_token', last_cookie'))
                 /\ UNCHANGED current_pos
            ELSE /\ StatusCheck(o.res, o)
                 /\ UNCHANGED res
    /\ UNCHANGED <<key, cookies_SID, referer, hops, url, step, last_login,
                   scan_key>>

ScanValidReceive ==
    /\ pc = "scan_valid"
    /\ \E o \in Outcomes :
         /\ Hook(o)
         /\ IF Raised(o) # None
            THEN /\ Done(Raise("scan", Raised(o)), o)
                 /\ res' = NoRes
                 /\ UNCHANGED <<current_pos, last_login>>
            ELSE IF is_valid_session(o.res)
            THEN /\ StatusCheck(res, o)
                 /\ res' = NoRes
                 /\ UNCHANGED last_login
            ELSE /\ last_login' = current_pos
                 /\ SendNext("scan_login",
                        xml_setter(Str("Set.LOGIN"),
                                   login_params(scan_key, key),
                                   session_token', last_cookie'))
                 /\ UNCHANGED <<current_pos, res>>
    /\ UNCHANGED <<key, cookies_SID, referer, hops, url, step, scan_key>>

\* A scan that goes on after a login that raised.
login_raises_never(check) == FALSE

\* modem.login(self.key) inside scan raised: check is what login made of
\* the setter's response.
login_raises(check) == check.exc # None

ScanLoginReceive ==
    /\ pc = "scan_login"
    /\ \E o \in Outcomes :
         /\ Hook(o)
         /\ IF Raised(o) # None
            THEN /\ Done(Raise("scan", Raised(o)), o)
                 /\ UNCHANGED cookies_SID
            ELSE /\ cookies_SID' = login_check(o.res, cookies_SID).SID
                 /\ IF login_raises(login_check(o.res, cookies_SID))
                    THEN Done(Raise("scan",
                                    login_check(o.res, cookies_SID).exc), o)
                    ELSE LoopOrReturn(res, current_pos, o)
    /\ res' = NoRes
    /\ UNCHANGED <<key, referer, hops, url, step, current_pos, last_login,
                   scan_key>>

(***************************************************************************)
(* The caller                                                              *)
(***************************************************************************)
\* The caller has the result of its call and goes on: what was observed of
\* the finished call is dropped.
Continue ==
    /\ pc = "done"
    /\ pc' = "idle"
    /\ request' = NoRequest
    /\ result' = [Return("none", NoRes)
                    EXCEPT !.again = (result.op = "logout")]
    /\ last_status' = 0
    /\ got' = FALSE
    /\ hops' = 0
    /\ url' = RootPage
    /\ UNCHANGED <<session_token, key, cookies_SID, referer, step, scanVars,
                   last_cookie>>

(***************************************************************************)
(* Specification                                                           *)
(***************************************************************************)
Next ==
    \/ Construct
    \/ ConstructReceive
    \/ ConstructSetupReceive
    \/ GetCall
    \/ GetReceive
    \/ PostBinaryCall
    \/ PostBinaryReceive
    \/ XmlGetterCall
    \/ XmlGetterReturn
    \/ XmlSetterCall
    \/ XmlSetterReturn
    \/ LoginCall
    \/ LoginReturn
    \/ LogoutCall
    \/ LogoutReturn
    \/ RebootCall
    \/ RebootReturn
    \/ InitialSetupCall
    \/ InitialSetupReceive
    \/ FactoryResetCall
    \/ FactoryResetSnapshot
    \/ FactoryResetReturn
    \/ ScanCall
    \/ ScanProbeReceive
    \/ ScanValidReceive
    \/ ScanLoginReceive
    \/ Continue

Spec == Init /\ [][Next]_vars

(***************************************************************************)
(* The field order of post, xml_getter and xml_setter on parameter lists   *)
(* of every shape                                                          *)
(***************************************************************************)
\* Field names a caller may use; fun and token are the names post treats.
ParamNames == {"token", "fun", "a", "b"}

\* The value a caller gives the field named n.
ParamValue(n) == Str("caller-" \o n)

\* The parameter lists of at most n fields.
RECURSIVE ParamLists(_)
ParamLists(n) ==
    IF n = 0 THEN { <<>> }
    ELSE ParamLists(n - 1) \cup
         { Append(d, <<k, ParamValue(k)>>) :
             d \in { e \in ParamLists(n - 1) : Len(e) = n - 1 },
             k \in ParamNames }

\* A dictionary names each field once.
Distinct(d) == \A i, j \in 1..Len(d) : d[i][1] = d[j][1] => i = j

InitPost ==
    /\ session_token \in Tokens \cup {None}
    /\ last_cookie = session_token
    /\ key = None
    /\ scan_key = None
    /\ cookies_SID = None
    /\ referer = {LoginPage}
    /\ pc = "idle"
    /\ hops = 0
    /\ url = RootPage
    /\ step = 0
    /\ current_pos \in StartPositions
    /\ last_login = -1
    /\ res = NoRes
    /\ \E d \in { e \in ParamLists(MaxParams) : Distinct(e) } :
         request = [NoRequest EXCEPT !.params = d]
    /\ result = Return("none", NoRes)
    /\ last_status = 0
    /\ got = FALSE

\* A caller hands its parameter list to post, xml_getter or xml_setter.
PostApply ==
    /\ pc = "idle"
    /\ pc' = "post"
    /\ request' = post_request(SetterPath, request.params, session_token,
                               last_cookie)
    /\ UNCHANGED <<session_token, key, cookies_SID, referer, hops, url, step,
                   scanVars, result, last_cookie, last_status, got>>

XmlGetterApply ==
    /\ pc = "idle"
    /\ pc' = "xml_getter"
    /\ request' = xml_getter(Str("Get.GLOBALSETTINGS"), request.params,
                             session_token, last_cookie)
    /\ UNCHANGED <<session_token, key, cookies_SID, referer, hops, url, step,
                   scanVars, result, last_cookie, last_status, got>>

XmlSetterApply ==
    /\ pc = "idle"
    /\ pc' = "xml_setter"
    /\ request' = xml_setter(Str("Set.FIREWALL"), request.params,
                             session_token, last_cookie)
    /\ UNCHANGED <<session_token, key, cookies_SID, referer, hops, url, step,
                   scanVars, result, last_cookie, last_status, got>>

NextPost ==
    \/ PostApply
    \/ XmlGetterApply
    \/ XmlSetterApply

SpecPost == InitPost /\ [][NextPost]_vars

(***************************************************************************)
(* Properties                                                              *)
(***************************************************************************)
\* The caller's fields other than token and fun, in the caller's order.
Remaining(params) ==
    SelectSeq(params, LAMBDA e : e[1] # "token" /\ e[1] # "fun")

\* C1: the field list of every POST sent through post, xml_getter or
\* xml_setter is the token field, then fun if there is one (always, for
\* xml_getter and xml_setter), then the caller's remaining fields in the
\* caller's order and with the caller's values.
C1_FieldOrder ==
    request.via = "post" =>
        LET data == request.data
            hasFun == Has(request.params, "fun") \/ pc # "post"
        IN /\ Len(data) >= 1
           /\ data[1][1] = "token"
           /\ IF hasFun
              THEN /\ Len(data) >= 2
                   /\ data[2][1] = "fun"
                   /\ SubSeq(data, 3, Len(data)) = Remaining(request.params)
              ELSE SubSeq(data, 2, Len(data)) = Remaining(request.params)

\* C1 witness: a setter call whose caller put fun last, after two fields.
C1_Witness ==
    /\ pc = "xml_setter"
    /\ Len(request.params) = 3
    /\ request.params[3][1] = "fun"
    /\ DictKeys(request.data) = <<"token", "fun", "a", "b">>

\* C2: after any HTTP exchange the stored token is the response's
\* sessionToken cookie when the response carries one, and is otherwise the
\* token stored before the exchange.
C2_TokenKeptWithoutCookie ==
    [][got' =>
         session_token' = IF last_cookie' # None THEN last_cookie'
                          ELSE session_token]_vars

\* C3: the token placed in a getter/setter POST is the value captured from
\* the latest response the session received before it, whichever call
\* received that response.
C3_TokenFromLatestResponse ==
    request.via = "post" =>
        Lookup(request.data, "token") = Str(request.prior)

\* C3 witness: the probe scan re-issues after a re-login carries the token
\* of the login's response.
C3_Witness ==
    /\ pc = "scan"
    /\ last_login = current_pos
    /\ request.prior = "t2"
    /\ Lookup(request.data, "token") = Str("t2")

\* The positions of the non-blank SID items of a body.
SidItems(text) ==
    { i \in 1..Len(text) : text[i][1] = "SID" /\ text[i][2] # "" }

\* C4: login returns exactly when its setter's response has status 200 and
\* a SID value in its body; it then returns that response with the first SID
\* installed as the SID cookie.  The password sent is the caller's key when
\* one is given, and the configured key otherwise.
C4_LoginSuccess ==
    (pc = "done" /\ result.op = "login") =>
        LET r == result.resp
            ok == /\ result.fail = None
                  /\ r.status_code = 200
                  /\ SidItems(r.text) # {}
            first == CHOOSE i \in SidItems(r.text) :
                         \A j \in SidItems(r.text) : i <= j
        IN /\ (result.kind = "return") <=> ok
           /\ ok => /\ result.val = r
                    /\ cookies_SID = r.text[first][2]
           /\ request.path = SetterPath
           /\ Lookup(request.data, "fun") = Str("Set.LOGIN")
           /\ Lookup(request.data, "Username") = Str("admin")
           /\ Lookup(request.data, "Password") =
                  Str(IF result.arg \notin {None, ""} THEN result.arg
                      ELSE key)

\* C4 witness: login with an empty key sent the configured key and the first
\* of two SID values of the answer became the cookie.
C4_Witness ==
    /\ pc = "done"
    /\ result.op = "login"
    /\ result.kind = "return"
    /\ result.arg = ""
    /\ Lookup(request.data, "Password") = Str("pw")
    /\ result.val.text = << <<"SID", "s2">>, <<"SID", "s1">> >>
    /\ cookies_SID = "s2"

\* C5: every response login does not accept gets one typed error: other
\* than 200 with a Location ending in the access-denied page, access denied;
\* any other response other than 200, with or without a Location header,
\* login failed for an unknown reason; 200 without a SID, invalid
\* credentials.
C5_LoginErrors ==
    (pc = "done" /\ result.op = "login" /\ result.fail = None
       /\ ~(result.resp.status_code = 200
            /\ SidItems(result.resp.text) # {})) =>
        /\ result.kind = "raise"
        /\ result.exc =
             IF result.resp.status_code = 200 THEN "InvalidCredentials"
             ELSE IF \E l \in result.resp.Location :
                         EndsWith(l, AccessDeniedPage)
                  THEN "AccessDenied"
                  ELSE "LoginFailedUnknown"

\* C6: a login that raises, called by the user or by the scanner, leaves the
\* SID cookie as it was.
C6_FailedLoginKeepsSid ==
    [][(pc \in {"login", "scan_login"} /\ result'.kind = "raise") =>
           cookies_SID' = cookies_SID]_vars

\* C6 witness: an answer that redirects to the access-denied page and spells
\* a SID in its body left the session without a SID cookie.
C6_Witness ==
    /\ pc = "done"
    /\ result.op = "login"
    /\ result.exc = "AccessDenied"
    /\ result.resp.text = << <<"SID", "s1">> >>
    /\ cookies_SID = None

\* The hook raised on the response received in this step.
HookRaised(status, resp) == status = 302 /\ resp.Location = {}

\* C7: when the probe at the cursor was answered with an empty body and the
\* session-validity getter is answered with a status other than 200, the
\* scanner records last_login = cursor and sends the login setter with its
\* key; the cursor stays while login runs and until the next probe is
\* answered, and every probe is sent for the cursor, so the next probe is
\* again for that position.
C7_ReloginRetriesSamePosition ==
    [][/\ pc = "scan_valid" =>
            /\ res.text = <<>>
            /\ Lookup(request.data, "fun") = Str("Get.CM_SYSTEM_INFO")
       /\ (pc = "scan_valid" /\ got' /\ last_status' # 200
             /\ ~(pc' = "done" /\ result'.exc = "KeyError"
                  /\ HookRaised(last_status', result'.resp))) =>
            /\ pc' = "scan_login"
            /\ last_login' = current_pos
            /\ current_pos' = current_pos
            /\ request'.path = SetterPath
            /\ Lookup(request'.data, "fun") = Str("Set.LOGIN")
            /\ Lookup(request'.data, "Password") =
                   Str(IF scan_key \notin {None, ""} THEN scan_key ELSE key)
       /\ pc = "scan_login" =>
            /\ current_pos' = current_pos
            /\ last_login' = current_pos
       /\ pc \notin {"scan", "scan_valid"} => current_pos' = current_pos
       /\ (pc' = "scan" /\ pc # "scan") =>
            /\ request'.path = GetterPath
            /\ Lookup(request'.data, "fun") = Num(current_pos')
      ]_vars

\* C7 witness: after the cursor left its start, a re-login at the cursor was
\* followed by a new probe for the same position.
C7_Witness ==
    /\ pc = "scan"
    /\ got
    /\ current_pos \notin StartPositions
    /\ last_login = current_pos
    /\ cookies_SID # None
    /\ Lookup(request.data, "fun") = Num(current_pos)

\* C8 as claimed: the cursor never decreases, and it moves only when a probe
\* is answered with a body that is not empty; after an empty body it stays,
\* whether the session is valid or not.
C8_NoAdvancePastEmptyBody ==
    [][/\ current_pos' >= current_pos
       /\ pc = "scan_valid" => current_pos' = current_pos
       /\ current_pos' # current_pos =>
            /\ pc = "scan"
            /\ result'.resp.text # <<>>
      ]_vars

\* C8 amended: the cursor never decreases and moves one position at a time:
\* on a probe answered 200 with a body, or on a probe answered 200 with an
\* empty body once the session-validity getter is answered 200.  It stays
\* when the validity getter is answered otherwise, and while login runs.
C8_AdvanceOnlyOn200 ==
    [][/\ current_pos' >= current_pos
       /\ current_pos' # current_pos =>
            /\ current_pos' = current_pos + 1
            /\ \/ /\ pc = "scan"
                  /\ result'.kind = "return"
                  /\ result'.val.status_code = 200
                  /\ result'.val.text # <<>>
               \/ /\ pc = "scan_valid"
                  /\ res.status_code = 200
                  /\ res.text = <<>>
                  /\ got'
                  /\ last_status' = 200
       /\ (pc = "scan_valid" /\ got' /\ last_status' # 200) =>
            current_pos' = current_pos
       /\ pc = "scan_login" => current_pos' = current_pos
      ]_vars

\* C8 witness: the start position answered 200 with an empty body on a valid
\* session, and the same call now probes the next position.
C8_Witness ==
    /\ pc = "scan"
    /\ got
    /\ last_status = 200
    /\ last_login = -1
    /\ current_pos \notin StartPositions
    /\ Lookup(request.data, "fun") = Num(current_pos)

\* The probe response received by a step of scan out of pc = "scan".
ProbeAnswer == IF pc' = "done" THEN result'.resp ELSE res'

\* C9: a probe answered with a status other than 200 that does not lead to a
\* re-login (a body that is not empty, or an empty body on a session the
\* validity getter finds valid) makes scan raise the HTTP-status error: no
\* further request is sent, no login is made, the cursor stays.
C9_Non200ProbeIsFatal ==
    [][(\/ /\ pc = "scan"
           /\ got'
           /\ ProbeAnswer.status_code # 200
           /\ ProbeAnswer.text # <<>>
           /\ ~HookRaised(last_status', ProbeAnswer)
        \/ /\ pc = "scan_valid"
           /\ got'
           /\ last_status' = 200
           /\ res.status_code # 200) =>
           /\ pc' = "done"
           /\ result'.op = "scan"
           /\ result'.kind = "raise"
           /\ result'.exc = "ScanHttpError"
           /\ request' = request
           /\ current_pos' = current_pos
           /\ last_login' = last_login
           /\ cookies_SID' = cookies_SID
      ]_vars

\* C9 witness: a probe answered 404 with a body ended scan with the
\* HTTP-status error.
C9_Witness ==
    /\ pc = "done"
    /\ result.op = "scan"
    /\ result.exc = "ScanHttpError"
    /\ result.resp.status_code = 404
    /\ result.resp.text # <<>>
    /\ Lookup(request.data, "fun") = Num(current_pos)

\* C10: reboot sends the reboot setter once; a read timeout makes it return
\* None, any other transport failure is raised to the caller, and the
\* response is returned when there is one.
C10_RebootTimeout ==
    [][pc = "reboot" =>
         /\ pc' = "done"
         /\ request' = request
         /\ request.path = SetterPath
         /\ request.data =
                << <<"token", Str(session_token)>>,
                   <<"fun", Str("Set.REBOOT")>> >>
         /\ result'.fail = "ReadTimeout" =>
                /\ result'.kind = "return"
                /\ result'.val = NoRes
         /\ result'.fail \in Failures \ {"ReadTimeout"} =>
                /\ result'.kind = "raise"
                /\ result'.exc = result'.fail
         /\ (result'.fail = None
               /\ ~HookRaised(last_status', result'.resp)) =>
                /\ result'.kind = "return"
                /\ result'.val = result'.resp
                /\ result'.val \in Responses
      ]_vars

\* C10 witness: reboot ended in a read timeout and returned None.
C10_Witness ==
    /\ pc = "done"
    /\ result.op = "reboot"
    /\ result.fail = "ReadTimeout"
    /\ result.kind = "return"
    /\ result.val = NoRes

\* The function a getter/setter request names, <<>> for other requests.
Fun(req) == IF Has(req.data, "fun") THEN Lookup(req.data, "fun") ELSE <<>>

\* C11: factory_reset sends the default-value getter first and the
\* factory-reset setter only once that getter is answered; it returns the
\* getter's response when the setter is answered and when the setter ends in
\* a read timeout; when the getter fails the failure is raised and no
\* request follows.
C11_FactoryResetSnapshotFirst ==
    [][/\ pc = "factory_reset" =>
            /\ request.path = GetterPath
            /\ request.data = << <<"token", Str(session_token)>>,
                                 <<"fun", Str("Get.DEFAULTVALUE")>> >>
            /\ IF got' /\ ~(pc' = "done" /\ result'.exc = "KeyError")
               THEN /\ pc' = "factory_reset_set"
                    /\ res' \in Responses
                    /\ res'.status_code = last_status'
                    /\ res'.cookie = last_cookie'
                    /\ request'.path = SetterPath
                    /\ request'.data =
                           << <<"token", Str(session_token')>>,
                              <<"fun", Str("Set.FACTORY_RESET")>> >>
               ELSE /\ pc' = "done"
                    /\ result'.op = "factory_reset"
                    /\ result'.kind = "raise"
                    /\ result'.exc \in Failures \cup {"KeyError"}
                    /\ request' = request
       /\ (Fun(request') = Str("Set.FACTORY_RESET") /\ request' # request) =>
            pc = "factory_reset"
       /\ pc = "factory_reset_set" =>
            /\ pc' = "done"
            /\ request' = request
            /\ result'.op = "factory_reset"
            /\ (\/ result'.fail = "ReadTimeout"
                \/ /\ result'.fail = None
                   /\ ~HookRaised(last_status', result'.resp)) =>
                   /\ result'.kind = "return"
                   /\ result'.val = res
                   /\ res \in Responses
      ]_vars

\* C11 witness: the reset setter ended in a read timeout and factory_reset
\* returned the snapshot the getter had answered with.
C11_Witness ==
    /\ pc = "done"
    /\ result.op = "factory_reset"
    /\ result.fail = "ReadTimeout"
    /\ result.kind = "return"
    /\ result.val.status_code = 200
    /\ result.val.text # <<>>
    /\ Fun(request) = Str("Set.FACTORY_RESET")

\* C12: initial_setup called with no key, on a client that has none, raises
\* the missing-key error and sends nothing; with a key given or configured
\* it starts its sequence, and the password it sets is the key it was given,
\* or the configured key when it was given none.  The constructor's
\* initial_setup, which is given no key, fails the same way before it sends
\* a getter or setter.
C12_SetupNeedsKey ==
    [][/\ (pc = "idle" /\ result'.op = "initial_setup") =>
            IF ~Truthy(result'.arg) /\ ~Truthy(key)
            THEN /\ pc' = "done"
                 /\ result'.kind = "raise"
                 /\ result'.exc = "ValueError"
                 /\ request' = request
                 /\ request.method = "none"
            ELSE /\ pc' = "initial_setup"
                 /\ request'.via = "post"
       /\ (pc' = "initial_setup" /\ step' = 5) =>
            /\ Fun(request') = Str("Set.LOGIN")
            /\ Lookup(request'.data, "Password") =
                   Str(IF Truthy(result'.arg) THEN result'.arg ELSE key)
       /\ (pc = "__init__" /\ step = 0 /\ pc' = "__init__" /\ step' = 1) =>
            Truthy(key)
       /\ (pc = "__init__" /\ pc' = "failed"
             /\ result'.exc = "ValueError") =>
            /\ ~Truthy(key)
            /\ request' = request
            /\ request.via = "get"
      ]_vars

\* C12 witness: initial_setup without a key on a client without a key ended
\* in the missing-key error with no request sent.
C12_Witness ==
    /\ pc = "done"
    /\ result.op = "initial_setup"
    /\ result.exc = "ValueError"
    /\ ~Truthy(result.arg)
    /\ ~Truthy(key)
    /\ request.method = "none"

\* The endpoint and the function of each request of the initial setup, in
\* the order of the sequence.
SetupOrder ==
    << <<GetterPath, Str("Get.MULTILANG")>>,
       <<GetterPath, Str("Get.LANGSETLIST")>>,
       <<GetterPath, Str("Get.MULTILANG")>>,
       <<SetterPath, Str("Set.LANGUAGE")>>,
       <<SetterPath, Str("Set.LOGIN")>>,
       <<GetterPath, Str("Get.WIRELESSBASIC")>>,
       <<SetterPath, Str("Set.INSTALL_DONE")>> >>

\* initial_setup is running, called by the user or by the constructor.
InSetup == pc = "initial_setup" \/ (pc = "__init__" /\ step > 0)

\* C13: initial_setup sends the language getters, then the set-language
\* setter with lang = en, then the login setter with Username admin and
\* Password = the key, then the wireless-basic getter, then the
\* installation-done setter: it starts with the first, each answer is
\* followed by the next request of the order, and it returns only after the
\* last one is answered.
C13_SetupOrder ==
    [][/\ InSetup =>
            /\ step \in 1..Len(SetupOrder)
            /\ request.path = SetupOrder[step][1]
            /\ Fun(request) = SetupOrder[step][2]
            /\ DictKeys(request.data)[1] = "token"
            /\ DictKeys(request.data)[2] = "fun"
            /\ step = 4 => SubSeq(request.data, 3, Len(request.data)) =
                               << <<"lang", Str("en")>> >>
            /\ step = 5 => SubSeq(request.data, 3, Len(request.data)) =
                               << <<"Username", Str("admin")>>,
                                  <<"Password", Str(key)>> >>
            /\ step = 7 => SubSeq(request.data, 3, Len(request.data)) =
                               << <<"install", Num(0)>>, <<"iv", Num(1)>>,
                                  <<"en", Num(0)>> >>
            /\ step \in {1, 2, 3, 6} => Len(request.data) = 2
       /\ (~InSetup /\ InSetup') =>
            (step' = 1 /\ pc \in {"idle", "__init__"})
       /\ (InSetup /\ InSetup') => (step' = step + 1 /\ got')
       /\ (InSetup /\ ~InSetup') =>
            /\ request' = request
            /\ result'.kind = "return" <=>
                   (step = Len(SetupOrder) /\ got' /\ result'.exc = None)
            /\ (got' /\ ~(result'.kind = "raise"
                          /\ result'.exc = "KeyError")) =>
                   step = Len(SetupOrder)
      ]_vars

\* C13 witness: initial_setup returned after its installation-done setter
\* was answered, here with an error status.
C13_Witness ==
    /\ pc = "done"
    /\ result.op = "initial_setup"
    /\ result.kind = "return"
    /\ result.resp.status_code = 404
    /\ Fun(request) = Str("Set.INSTALL_DONE")

\* The constructor's GET returned in this step: get() has set the Referer.
CtorGetReturned == pc = "__init__" /\ step = 0 /\ referer' # referer

\* C14: the constructor first sends a GET for '/' that follows redirects,
\* with the configured timeout.  When that GET ends on a page that is neither
\* the login page nor the first-installation page the constructor returns
\* with the warning logged and nothing else sent; on the login page it
\* returns without the warning.  It raises only what its requests raise, or
\* the missing-key error of the setup on the first-installation page; the
\* constructed client takes a login() call.
C14_ConstructorWarnsOnly ==
    [][/\ pc = "new" =>
            /\ pc' = "__init__"
            /\ request'.method = "GET"
            /\ request'.path = RootPage
            /\ request'.allow_redirects
            /\ request'.timeout = {timeout}
       /\ (CtorGetReturned /\ ~EndsWith(url, FirstInstallPage)) =>
            /\ pc' = "done"
            /\ result'.op = "__init__"
            /\ result'.kind = "return"
            /\ request' = request
            /\ result'.log = IF EndsWith(url, LoginPage) THEN None
                             ELSE "Was not redirected to login page"
       /\ (pc = "__init__" /\ pc' = "failed") =>
            \/ result'.exc \in Failures \cup {"KeyError", "TooManyRedirects"}
            \/ /\ result'.exc = "ValueError"
               /\ EndsWith(url, FirstInstallPage)
       /\ (pc = "done" /\ result.op = "__init__") => pc' = "idle"
       /\ pc = "idle" => ENABLED LoginCall
      ]_vars

\* C14 witness: the constructor's GET was redirected to the access-denied
\* page and the constructor returned with the warning.
C14_Witness ==
    /\ pc = "done"
    /\ result.op = "__init__"
    /\ result.kind = "return"
    /\ result.log = "Was not redirected to login page"
    /\ hops = 1
    /\ url = AccessDeniedPage
    /\ request.via = "get"

\* C15: when the constructor's GET ends on the first-installation page the
\* constructor runs the whole initial setup before it returns (or raises);
\* when it ends elsewhere, the login page included, the constructor sends no
\* getter or setter.  No other operation starts before the constructor has
\* returned.
C15_SetupBeforeConstructorReturns ==
    [][/\ (pc = "__init__" /\ pc' = "done") =>
            IF EndsWith(url, FirstInstallPage)
            THEN /\ step = Len(SetupOrder)
                 /\ Fun(request) = Str("Set.INSTALL_DONE")
                 /\ got'
            ELSE /\ step = 0
                 /\ request.via = "get"
       /\ (CtorGetReturned /\ EndsWith(url, FirstInstallPage)) =>
            \/ /\ pc' = "__init__"
               /\ step' = 1
               /\ request'.path = SetupOrder[1][1]
               /\ Fun(request') = SetupOrder[1][2]
            \/ /\ pc' = "failed"
               /\ ~Truthy(key)
               /\ result'.exc = "ValueError"
       /\ (CtorGetReturned /\ EndsWith(url, LoginPage)) =>
            /\ pc' = "done"
            /\ request' = request
       /\ (pc = "__init__" /\ request'.via = "post") =>
            EndsWith(url', FirstInstallPage)
       /\ pc \in {"new", "__init__"} =>
            /\ pc' \in {"__init__", "done", "failed"}
            /\ result'.op = "__init__"
      ]_vars

\* C15 witness: the constructor was redirected to the first-installation
\* page and returned after the installation-done setter was answered.
C15_Witness ==
    /\ pc = "done"
    /\ result.op = "__init__"
    /\ result.kind = "return"
    /\ hops = 1
    /\ EndsWith(url, FirstInstallPage)
    /\ Fun(request) = Str("Set.INSTALL_DONE")

\* C16: logout can be called in every state of the session, a second time
\* right after a first included.  Each call sends one setter request that
\* holds the token and fun = logout and no caller field, and returns the
\* device's response whatever its status; it raises only when the transport
\* fails or the hook's logging of a 302 without Location does.
C16_LogoutTwice ==
    [][/\ pc = "idle" => ENABLED LogoutCall
       /\ pc = "logout" =>
            /\ pc' = "done"
            /\ request' = request
            /\ request.path = SetterPath
            /\ request.params = <<>>
            /\ request.data = << <<"token", Str(session_token)>>,
                                 <<"fun", Str("Set.LOGOUT")>> >>
            /\ result'.op = "logout"
            /\ result'.again = result.again
            /\ IF result'.fail = None
                  /\ ~HookRaised(last_status', result'.resp)
               THEN /\ result'.kind = "return"
                    /\ result'.val = result'.resp
                    /\ result'.val \in Responses
               ELSE /\ result'.kind = "raise"
                    /\ result'.exc \in Failures \cup {"KeyError"}
      ]_vars

\* C16 witness: a logout called right after a logout, on a session that had
\* logged in, was answered with a redirect to the login page and returned it.
C16_Witness ==
    /\ pc = "done"
    /\ result.op = "logout"
    /\ result.again
    /\ result.kind = "return"
    /\ result.val.status_code = 302
    /\ result.val.Location = {LoginPage}
    /\ cookies_SID # None

\* C17: every request the client hands to its session (GET, getter and
\* setter POST, the binary restore POST and what follows their redirects)
\* carries the configured timeout.
C17_EveryRequestHasTimeout ==
    request.method # "none" => request.timeout = {timeout}

\* C18: post_binary returns to its caller the response the device gave to
\* the upload, after the hook has taken that response's token.
C18_PostBinaryReturnsResponse ==
    (pc = "done" /\ result.op = "post_binary" /\ result.kind = "return") =>
        /\ result.val = result.resp
        /\ result.val \in Responses
        /\ session_token = result.resp.cookie

C20_RedirectLimit ==
    [][/\ request.via = "post" => ~request.allow_redirects
       /\ hops <= 3
       /\ (request.via = "post" /\ request' # request
             /\ request'.method # "none") =>
            /\ request'.via = "post"
            /\ request'.method = "POST"
            /\ hops' = hops
       /\ (pc \in {"xml_getter", "xml_setter"} /\ got' /\ last_status' = 302
             /\ ~HookRaised(last_status', result'.resp)) =>
            /\ pc' = "done"
            /\ result'.kind = "return"
            /\ result'.val = result'.resp
            /\ result'.val.status_code = 302
            /\ request' = request
       /\ (pc \in {"get", "__init__"} /\ request.via = "get"
             /\ request.allow_redirects /\ got' /\ last_status' = 302) =>
            \/ /\ pc' \in {"done", "failed"}
               /\ result'.exc = "KeyError"
               /\ request' = request
            \/ /\ hops < 3
               /\ pc' = pc
               /\ hops' = hops + 1
               /\ request'.method = "GET"
               /\ request'.path = url'
               /\ request'.timeout = request.timeout
            \/ /\ hops = 3
               /\ pc' \in {"done", "failed"}
               /\ result'.exc = "TooManyRedirects"
               /\ request' = request
               /\ hops' = hops
       /\ hops' # hops =>
            \/ hops' = 0
            \/ /\ hops' = hops + 1
               /\ request.allow_redirects
               /\ last_status' = 302
      ]_vars

\* C20 witness: a get() that had followed three redirects was answered with
\* a fourth and raised TooManyRedirects.
C20_Witness ==
    /\ pc = "done"
    /\ result.op = "get"
    /\ result.kind = "raise"
    /\ result.exc = "TooManyRedirects"
    /\ result.resp.status_code = 302
    /\ result.resp.Location # {}
    /\ hops = 3

\* C21: a get() that returns sets the Referer header to the URL of the last
\* request of its redirect chain, the URL the response came from; a get()
\* that raises leaves the header as it was, and so does every step of a
\* getter, a setter or the binary POST.
C21_RefererFollowsGet ==
    [][/\ (pc = "get" /\ pc' = "done") =>
            IF result'.kind = "return"
            THEN /\ referer' = {request.path}
                 /\ request.via = "get"
                 /\ request' = request
                 /\ result'.val = result'.resp
                 /\ result'.val \in Responses
            ELSE referer' = referer
       /\ (pc = "get" /\ pc' # "done") => referer' = referer
       /\ (pc = "__init__" /\ step = 0 /\ referer' # referer) =>
            /\ referer' = {request.path}
            /\ request.via = "get"
            /\ got'
       /\ request.via \in {"post", "post_binary"} => referer' = referer
       /\ pc \notin {"get", "__init__"} => referer' = referer
      ]_vars

\* C21 witness: a get() that followed two redirects returned, and the
\* Referer is the page the second redirect led to, not the page asked for.
C21_Witness ==
    /\ pc = "done"
    /\ result.op = "get"
    /\ result.kind = "return"
    /\ hops = 2
    /\ request.path = AccessDeniedPage
    /\ referer = {AccessDeniedPage}

\* C22: a call of xml_getter or xml_setter sends one POST, to the getter or
\* the setter endpoint, whose fun field is the function the call names,
\* whatever fun the caller's parameters held; whatever the answer or the
\* failure, the call ends with that one request and sends no other.
C22_SingleShot ==
    [][/\ (pc = "idle" /\ pc' \in {"xml_getter", "xml_setter"}) =>
            /\ request'.method = "POST"
            /\ request'.path = IF pc' = "xml_getter" THEN GetterPath
                               ELSE SetterPath
            /\ Fun(request') = IF pc' = "xml_getter"
                               THEN Str("Get.GLOBALSETTINGS")
                               ELSE Str("Set.FIREWALL")
            /\ Remaining(request'.params) =
                   SubSeq(request'.data, 3, Len(request'.data))
       /\ pc \in {"xml_getter", "xml_setter"} =>
            /\ pc' = "done"
            /\ request' = request
            /\ result'.op = pc
            /\ result'.fail # None =>
                   (result'.kind = "raise" /\ result'.exc = result'.fail)
            /\ (result'.fail = None
                  /\ ~HookRaised(last_status', result'.resp)) =>
                   /\ result'.kind = "return"
                   /\ result'.val = result'.resp
      ]_vars

\* C22 witness: a setter whose caller had left a fun in its parameters sent
\* the named function, met a connection error and ended with that request.
C22_Witness ==
    /\ pc = "done"
    /\ result.op = "xml_setter"
    /\ result.fail = "ConnectionError"
    /\ result.kind = "raise"
    /\ Has(request.params, "fun")
    /\ Fun(request) = Str("Set.FIREWALL")
    /\ request.path = SetterPath

(***************************************************************************)
(* The scanner alone, on a device that answers every request               *)
(***************************************************************************)
\* A constructed client, possibly logged in, with a new FuncScanner.
InitScan ==
    /\ session_token \in Tokens \cup {None}
    /\ last_cookie = session_token
    /\ \E ks \in {<<None, "pw2">>, <<"pw", None>>} :
         /\ key = ks[1]
         /\ scan_key = ks[2]
    /\ cookies_SID \in {None, "s1"}
    /\ referer = {LoginPage}
    /\ pc = "idle"
    /\ hops = 0
    /\ url = RootPage
    /\ step = 0
    /\ current_pos \in StartPositions
    /\ last_login = -1
    /\ res = NoRes
    /\ request = NoRequest
    /\ result = Return("none", NoRes)
    /\ last_status = 0
    /\ got = FALSE

NextScan ==
    \/ ScanCall
    \/ ScanProbeReceive
    \/ ScanValidReceive
    \/ ScanLoginReceive
    \/ Continue

\* Every request scan sends is answered, or fails, in the end.
SpecScan ==
    /\ InitScan
    /\ [][NextScan]_vars
    /\ WF_vars(ScanProbeReceive)
    /\ WF_vars(ScanValidReceive)
    /\ WF_vars(ScanLoginReceive)

\* scan() is running.
InScan == pc \in {"scan", "scan_valid", "scan_login"}

\* Positions the cursor can take.
Positions == { p \in 0..MaxPos : \E s \in StartPositions : s <= p }

\* C23: a scan() call that is at position p ends, by returning or raising,
\* or moves the cursor beyond p: it does not cycle through re-logins at p
\* for ever.
C23_ScanLeavesPosition ==
    \A p \in Positions :
        (InScan /\ current_pos = p) ~> (pc = "done" \/ current_pos > p)

\* The error login raises for the outcome recorded in r, None when login
\* returns.
LoginError(r, status) ==
    IF r.fail # None THEN r.fail
    ELSE IF HookRaised(status, r.resp) THEN "KeyError"
    ELSE IF r.resp.status_code # 200
         THEN IF r.resp.Location = {} THEN "KeyError"
              ELSE IF \E l \in r.resp.Location : EndsWith(l, AccessDeniedPage)
                   THEN "AccessDenied"
                   ELSE "LoginFailedUnknown"
    ELSE IF SidItems(r.resp.text) = {} THEN "InvalidCredentials"
    ELSE None

\* C24: the scanner logs in with last_login set to the cursor; when that
\* login raises, scan raises the login's error with the cursor and
\* last_login both at that position and sends nothing more; scan goes on
\* after the login only when the login was answered 200.  Nothing moves the
\* cursor or last_login between calls, and the next scan() call starts with
\* a probe of the cursor's position.
C24_ReloginErrorKeepsPosition ==
    [][/\ (pc = "scan_valid" /\ pc' = "scan_login") =>
            /\ last_login' = current_pos
            /\ current_pos' = current_pos
            /\ Fun(request') = Str("Set.LOGIN")
       /\ pc = "scan_login" =>
            /\ last_login = current_pos
            /\ last_login' = last_login
            /\ current_pos' = current_pos
            /\ IF pc' = "done"
               THEN /\ result'.op = "scan"
                    /\ request' = request
                    /\ IF LoginError(result', last_status') # None
                       THEN /\ result'.kind = "raise"
                            /\ result'.exc = LoginError(result', last_status')
                            /\ cookies_SID' = cookies_SID
                       ELSE result'.kind = "return"
               ELSE /\ pc' = "scan"
                    /\ got'
                    /\ last_status' = 200
                    /\ cookies_SID' # None
                    /\ Fun(request') = Num(current_pos)
       /\ pc \in {"done", "idle"} =>
            /\ current_pos' = current_pos
            /\ last_login' = last_login
       /\ (pc = "idle" /\ pc' = "scan") =>
            /\ request'.path = GetterPath
            /\ Fun(request') = Num(current_pos)
      ]_vars

\* C24 witness: after the cursor had advanced, the scanner's login was
\* refused with a redirect to the access-denied page and scan raised that
\* error with the cursor and last_login at the position.
C24_Witness ==
    /\ pc = "done"
    /\ result.op = "scan"
    /\ result.kind = "raise"
    /\ result.exc = "AccessDenied"
    /\ Fun(request) = Str("Set.LOGIN")
    /\ current_pos \notin StartPositions
    /\ last_login = current_pos

====
